---- MODULE Spec2Model ----
(***************************************************************************)
(* A model of rootbench's root/roofit/vectorisedPDFs/benchFitModel.cxx:    *)
(* the three registered benchmarks (fit_Scalar, fit_CPU, fit_CUDA), the    *)
(* body of benchModel step by step, and the helper randomiseParameters.    *)
(*                                                                         *)
(* Numbers.  The program computes in double.  The model keeps every real   *)
(* quantity on an integer grid: shape parameters and the observable in     *)
(* hundredths (0.01 -> 1), event yields in thousands of events             *)
(* (1000 events -> 1, see Kilo).  Every number written in the source lies  *)
(* on its grid, and 0.2, 0.3, 0.1 times 100000 are exact in double.        *)
(* A value is a record so that IEEE infinities and NaN can be told apart   *)
(* from finite values.                                                     *)
(*                                                                         *)
(* Library calls (RooWorkspace::factory, RooAbsPdf::generate and fitTo,    *)
(* RooRandom, TRandom, Google Benchmark) are not code of this repository;  *)
(* each is modelled by the effect the program relies on, and where that    *)
(* effect differs between builds the model chooses among the outcomes.     *)
(***************************************************************************)
EXTENDS Integers, Sequences, FiniteSets, TLC

VARIABLES
    hasCuda,    \* build: R__HAS_CUDA is defined
    ieeeInf,    \* build: RooNumber::infinity() is IEEE infinity (else 1e30)
    bench,      \* harness: index of the registered benchmark being run
    invoked,    \* harness: calls of benchModel made for that benchmark
    pc,         \* benchModel: position in the function body
    maxIters,   \* benchModel: iterations the harness asks of this call
    runConfig,  \* benchModel: the local const runConfig (-1 before line 61)
    w,          \* benchModel: the variables of the RooWorkspace w
    data,       \* benchModel: the RooDataSet held by `data`
    iter,       \* benchModel: timing-loop iterations completed
    rng,        \* process: the generator RooRandom::randomGenerator()
    setups,     \* history: model builds / data generations of this call
    fitLog,     \* history: the fitTo calls of this call, in order
    genLog,     \* history: every set-up made in this process: the runConfig,
                \*          the model as set up and the dataset generated
    randLog     \* history: the calls of randomiseParameters

vars == <<hasCuda, ieeeInf, bench, invoked, pc, maxIters, runConfig, w, data,
          iter, rng, setups, fitLog, genLog, randLog>>

-----------------------------------------------------------------------------
(* Bounds of the model *)

MaxInvocations == 2     \* calls of benchModel the harness makes per benchmark
MaxIters == 3           \* timing-loop iterations of one call
MaxFitShift == 1        \* how far (grid steps) one fit moves a parameter
UniRes == 4             \* a uniform draw is u / UniRes, u in 1..UniRes-1
MaxCalls == 3           \* uses of the global generator after set-up
MaxSeed == 2            \* seeds passed to randomiseParameters: 0..MaxSeed
RooInf == 100000000     \* stand-in for the library's finite infinity, 1e30
MaxArg == 3             \* arguments benchModel is called with directly: 0..MaxArg

(* Program constants *)

nEvents == 100000
fitScalar == 0
fitCpu == 1
fitCuda == 2

-----------------------------------------------------------------------------
(* Doubles: finite grid values, signed infinities, NaN *)

Fin(k) == [kind |-> "fin", n |-> k]
PosInf == [kind |-> "inf", n |-> 1]
NegInf == [kind |-> "inf", n |-> -1]
NaN == [kind |-> "nan", n |-> 0]

\* a - b in IEEE arithmetic
NumSub(a, b) ==
    IF a.kind = "nan" \/ b.kind = "nan" THEN NaN
    ELSE IF a.kind = "inf" /\ b.kind = "inf"
         THEN (IF a.n = b.n THEN NaN ELSE a)
    ELSE IF a.kind = "inf" THEN a
    ELSE IF b.kind = "inf" THEN [kind |-> "inf", n |-> 0 - b.n]
    ELSE Fin(a.n - b.n)

\* a + b in IEEE arithmetic
NumAdd(a, b) ==
    IF a.kind = "nan" \/ b.kind = "nan" THEN NaN
    ELSE IF a.kind = "inf" /\ b.kind = "inf"
         THEN (IF a.n = b.n THEN a ELSE NaN)
    ELSE IF a.kind = "inf" THEN a
    ELSE IF b.kind = "inf" THEN b
    ELSE Fin(a.n + b.n)

\* (u / UniRes) * a, rounded towards minus infinity (0 * inf is NaN)
NumScale(u, a) ==
    IF a.kind = "nan" THEN NaN
    ELSE IF a.kind = "inf" THEN (IF u = 0 THEN NaN ELSE a)
    ELSE Fin((u * a.n) \div UniRes)

\* a <= b as the C++ comparison: false whenever a NaN is involved
NumLe(a, b) ==
    IF a.kind = "nan" \/ b.kind = "nan" THEN FALSE
    ELSE IF a.kind = "inf" /\ b.kind = "inf" THEN a.n <= b.n
    ELSE IF a.kind = "inf" THEN a.n < 0
    ELSE IF b.kind = "inf" THEN b.n > 0
    ELSE a.n <= b.n

\* a number of events on the yield grid (thousands of events)
Kilo(events) == events \div 1000

-----------------------------------------------------------------------------
(* The workspace: w.factory(...) *)

\* name[lo,hi]: a variable with a range, its value the middle of the range
Var2(lo, hi) ==
    [val |-> Fin((lo + hi) \div 2), min |-> Fin(lo), max |-> Fin(hi),
     const |-> FALSE]

\* name[v,lo,hi]: a variable with an initial value and a range
Var3(v, lo, hi) ==
    [val |-> Fin(v), min |-> Fin(lo), max |-> Fin(hi), const |-> FALSE]

\* name[v]: a constant with no range; getMin/getMax return -/+ infinity,
\* which the library represents as IEEE infinity or as +-1e30
Var1(v, ieee) ==
    [val |-> Fin(v),
     min |-> IF ieee THEN NegInf ELSE Fin(0 - RooInf),
     max |-> IF ieee THEN PosInf ELSE Fin(RooInf),
     const |-> TRUE]

\* the variables the five component factories declare (lines 71-75)
Components(ieee) ==
    [x  |-> Var2(0, 2000),
     g  |-> Var3(2000, 10, 4000),
     b  |-> Var3(50, 1, 1000),
     m0 |-> Var1(0, ieee),
     m1 |-> Var3(1000, 0, 2000),
     s1 |-> Var3(200, 10, 1000),
     m2 |-> Var3(500, 0, 2000),
     s2 |-> Var3(30, 1, 1000),
     m3 |-> Var3(1500, 0, 2000),
     s3 |-> Var3(40, 1, 1000),
     a  |-> Var3(-1, -5, 10)]

\* the coefficients SUM::model declares (lines 77-78): ranges [0,1e9] for ns1
\* and ng2, [0,1e10] for ns2, ng3 and npol, on the yield grid
Coefficients ==
    [ns1  |-> Var2(0, Kilo(1000000000)),
     ns2  |-> Var2(0, 10 * Kilo(1000000000)),
     ng2  |-> Var2(0, Kilo(1000000000)),
     ng3  |-> Var2(0, 10 * Kilo(1000000000)),
     npol |-> Var2(0, 10 * Kilo(1000000000))]

CoefNames == {"ns1", "ns2", "ng2", "ng3", "npol"}

\* the workspace after the six factory calls
FactoryWorkspace(ieee) == Components(ieee) @@ Coefficients

\* the empty workspace: before RooWorkspace w is filled, and after it is gone
NoWorkspace == [n \in {} |-> Fin(0)]

\* RooNumber::isInfinite: an IEEE infinity, or beyond the finite stand-in
IsInfinite(a) ==
    \/ a.kind = "inf"
    \/ a.kind = "fin" /\ (a.n >= RooInf \/ a.n <= 0 - RooInf)

\* the value RooRealVar::setVal stores for v: v clipped to a finite bound it
\* lies beyond; a NaN compares false with both bounds and is stored as it is
ClipToRange(var, v) ==
    IF v.kind = "nan" THEN v
    ELSE IF ~IsInfinite(var.max) /\ ~NumLe(v, var.max) THEN var.max
    ELSE IF ~IsInfinite(var.min) /\ ~NumLe(var.min, v) THEN var.min
    ELSE v

\* RooRealVar::setVal
SetVal(ws, name, v) == [ws EXCEPT ![name].val = ClipToRange(ws[name], v)]

\* the mutant of CoefTenths: ng3 set to 0.2 * nEvents
CoefTenthsSlip(name) ==
    CASE name = "ns1" -> 2 [] name = "ns2" -> 3 [] name = "ng2" -> 1
      [] name = "ng3" -> 2 [] name = "npol" -> 3

\* the factor, in tenths, of nEvents each coefficient is set to (lines 81-85)
CoefTenths(name) ==
    CASE name = "ns1" -> 2 [] name = "ns2" -> 3 [] name = "ng2" -> 1
      [] name = "ng3" -> 1 [] name = "npol" -> 3

\* 0.2 * nEvents and the like, exact in double
CoefValue(name) == Fin(Kilo((CoefTenths(name) * nEvents) \div 10))

\* the five setVal calls of lines 81-85
WithCoefficients(ws) ==
    [p \in DOMAIN ws |->
        IF p \in CoefNames THEN SetVal(ws, p, CoefValue(p))[p] ELSE ws[p]]

\* the values of a workspace's variables
Vals(ws) == [p \in DOMAIN ws |-> ws[p].val]

\* what a fit may not change: the variables, their ranges, their constness
Shape(ws) == [p \in DOMAIN ws |-> [min |-> ws[p].min, max |-> ws[p].max,
                                   const |-> ws[p].const]]

-----------------------------------------------------------------------------
(* The registered benchmarks (lines 113-119) *)

\* the argument of each registered benchmark, in registration order
Registered(cuda) ==
    IF cuda THEN <<fitScalar, fitCpu, fitCuda>> ELSE <<fitScalar, fitCpu>>

\* the mutant of BatchModeOf: the cpu branch asks for the cuda backend
BatchModeOfSwapped(rc) ==
    IF rc = fitScalar THEN "off"
    ELSE IF rc = fitCpu THEN "cuda"
    ELSE IF rc = fitCuda THEN "cuda"
    ELSE "none"

\* the if / else-if chain of lines 103-109: the BatchMode fitTo is called
\* with ("off": no BatchMode argument), or "none" when no branch is taken
BatchModeOf(rc) ==
    IF rc = fitScalar THEN "off"
    ELSE IF rc = fitCpu THEN "cpu"
    ELSE IF rc = fitCuda THEN "cuda"
    ELSE "none"

-----------------------------------------------------------------------------
(* The process-wide generator RooRandom::randomGenerator() *)

\* The generator's state: the seed of its stream and the draws taken from
\* it.  Seed 0 names the stream the library starts the process with.
StartRng == [seed |-> 0, pos |-> 0]

\* TRandom::SetSeed(seed): the stream of that seed, from its start
SetSeed(r, seed) == [seed |-> seed, pos |-> 0]

\* the mutant of Reseed: the generator is never reseeded
ReseedNever(r, seed) == r

\* lines 43-44: if (seed != 0) random->SetSeed(seed);
Reseed(r, seed) == IF seed # 0 THEN SetSeed(r, seed) ELSE r

\* TRandom::Uniform(): the draw u (of u / UniRes) the state r yields, a fixed
\* function of the stream and the position in it; the draw lies in the open
\* interval (0,1), so u is one of 1..UniRes-1
Uniform(r) == 1 + ((7 * r.seed + r.pos) % (UniRes - 1))

\* the generator after k draws
Advance(r, k) == [r EXCEPT !.pos = @ + k]

\* the dataset before pdf.generate and after the unique_ptr is destroyed
NoData == [len |-> 0, from |-> StartRng]

\* pdf.generate(RooArgSet(x), nEvents): nEvents values sampled from the
\* model with the global generator; the sample is a function of the model
\* and of the generator state it starts from
Generate(r, n) == [len |-> n, from |-> r]

-----------------------------------------------------------------------------
(* The minimiser behind pdf.fitTo: moves the floating parameters inside *)
(* their ranges and leaves constants, the observable and the data alone *)

Clip(var, k) ==
    IF k < var.min.n THEN var.min.n ELSE IF k > var.max.n THEN var.max.n ELSE k

FitTo(ws, shift) ==
    [p \in DOMAIN ws |->
        IF ws[p].const \/ p = "x" THEN ws[p]
        ELSE [ws[p] EXCEPT !.val = Fin(Clip(ws[p], ws[p].val.n + shift))]]

-----------------------------------------------------------------------------
(* The harness (Google Benchmark, BENCHMARK_MAIN): runs the registered     *)
(* benchmarks in order, calling benchModel one or more times for each      *)

Invoke ==
    /\ pc = "idle"
    /\ bench <= Len(Registered(hasCuda))
    /\ invoked < MaxInvocations
    /\ \E n \in 1..MaxIters : maxIters' = n
    /\ invoked' = invoked + 1
    /\ pc' = "config"
    /\ iter' = 0
    /\ setups' = [model |-> 0, data |-> 0]
    /\ fitLog' = <<>>
    /\ UNCHANGED <<hasCuda, ieeeInf, bench, runConfig, w, data, rng, genLog, randLog>>

NextBenchmark ==
    /\ pc = "idle"
    /\ bench <= Len(Registered(hasCuda))
    /\ invoked >= 1
    /\ bench' = bench + 1
    /\ invoked' = 0
    /\ UNCHANGED <<hasCuda, ieeeInf, pc, maxIters, runConfig, w, data, iter,
                   rng, setups, fitLog, genLog, randLog>>

-----------------------------------------------------------------------------
(* benchModel (lines 57-111) *)

\* line 61: const RunConfig_t runConfig = static_cast<...>(state.range(0))
ReadConfig ==
    /\ pc = "config"
    /\ runConfig' = Registered(hasCuda)[bench]
    /\ pc' = "factory"
    /\ UNCHANGED <<hasCuda, ieeeInf, bench, invoked, maxIters, w, data, iter,
                   rng, setups, fitLog, genLog, randLog>>

\* lines 68-78: RooWorkspace w and the six factory calls
BuildModel ==
    /\ pc = "factory"
    /\ w' = FactoryWorkspace(ieeeInf)
    /\ setups' = [setups EXCEPT !.model = @ + 1]
    /\ pc' = "coef"
    /\ UNCHANGED <<hasCuda, ieeeInf, bench, invoked, maxIters, runConfig, data,
                   iter, rng, fitLog, genLog, randLog>>

\* the mutant of SetCoefficients: the cuda run starts from other yields
SetCoefficientsByConfig ==
    /\ pc = "coef"
    /\ w' = IF runConfig = fitCuda
            THEN SetVal(WithCoefficients(w), "ns1", CoefValue("ns2"))
            ELSE WithCoefficients(w)
    /\ pc' = "generate"
    /\ UNCHANGED <<hasCuda, ieeeInf, bench, invoked, maxIters, runConfig, data,
                   iter, rng, setups, fitLog, genLog, randLog>>

\* lines 81-85: the five setVal calls
SetCoefficients ==
    /\ pc = "coef"
    /\ w' = WithCoefficients(w)
    /\ pc' = "generate"
    /\ UNCHANGED <<hasCuda, ieeeInf, bench, invoked, maxIters, runConfig, data,
                   iter, rng, setups, fitLog, genLog, randLog>>

\* lines 87-90: data = pdf.generate(RooArgSet(x), nEvents)
GenerateData ==
    /\ pc = "generate"
    /\ data' = Generate(rng, nEvents)
    /\ rng' = Advance(rng, nEvents)
    /\ setups' = [setups EXCEPT !.data = @ + 1]
    /\ genLog' = Append(genLog, [config |-> runConfig, model |-> w,
                                 data |-> data'])
    /\ pc' = "loop"
    /\ UNCHANGED <<hasCuda, ieeeInf, bench, invoked, maxIters, runConfig, w,
                   iter, fitLog, randLog>>

\* the mutant of Iteration that sets the parameters up again before each fit
IterationResetting ==
    /\ pc = "loop"
    /\ iter < maxIters
    /\ \E shift \in (0 - MaxFitShift)..MaxFitShift :
          LET start == WithCoefficients(FactoryWorkspace(ieeeInf))
              end == FitTo(start, shift)
          IN /\ w' = end
             /\ fitLog' = Append(fitLog, [mode |-> BatchModeOf(runConfig),
                                          start |-> Vals(start),
                                          end |-> Vals(end)])
    /\ iter' = iter + 1
    /\ UNCHANGED <<hasCuda, ieeeInf, bench, invoked, pc, maxIters, runConfig,
                   data, rng, setups, genLog, randLog>>

\* the mutant of Iteration that generates the dataset anew before each fit
IterationRegenerating ==
    /\ pc = "loop"
    /\ iter < maxIters
    /\ \E shift \in (0 - MaxFitShift)..MaxFitShift :
          LET end == FitTo(w, shift)
          IN /\ w' = end
             /\ fitLog' = Append(fitLog, [mode |-> BatchModeOf(runConfig),
                                          start |-> Vals(w),
                                          end |-> Vals(end)])
    /\ data' = Generate(rng, nEvents)
    /\ rng' = Advance(rng, nEvents)
    /\ iter' = iter + 1
    /\ UNCHANGED <<hasCuda, ieeeInf, bench, invoked, pc, maxIters, runConfig,
                   setups, genLog, randLog>>

\* lines 102-110: one pass of `for (auto _ : state)`: the branch runConfig
\* selects calls pdf.fitTo(*data, ...) once; with no branch taken the pass
\* does nothing
Iteration ==
    /\ pc = "loop"
    /\ iter < maxIters
    /\ IF BatchModeOf(runConfig) = "none"
       THEN UNCHANGED <<w, fitLog>>
       ELSE \E shift \in (0 - MaxFitShift)..MaxFitShift :
               LET end == FitTo(w, shift)
               IN /\ w' = end
                  /\ fitLog' = Append(fitLog, [mode |-> BatchModeOf(runConfig),
                                               start |-> Vals(w),
                                               end |-> Vals(end)])
    /\ iter' = iter + 1
    /\ UNCHANGED <<hasCuda, ieeeInf, bench, invoked, pc, maxIters, runConfig,
                   data, rng, setups, genLog, randLog>>

\* line 111: the loop has ended; data and w are destroyed
Return ==
    /\ pc = "loop"
    /\ iter = maxIters
    /\ pc' = "idle"
    /\ w' = NoWorkspace
    /\ data' = NoData
    /\ runConfig' = -1
    /\ UNCHANGED <<hasCuda, ieeeInf, bench, invoked, maxIters, iter, rng,
                   setups, fitLog, genLog, randLog>>

\* no use of the generator after set-up yet
NoRandLog == [calls |-> 0, seen |-> {}]

Init ==
    /\ hasCuda \in BOOLEAN
    /\ ieeeInf \in BOOLEAN
    /\ bench = 1
    /\ invoked = 0
    /\ pc = "idle"
    /\ maxIters = 0
    /\ runConfig = -1
    /\ w = NoWorkspace
    /\ data = NoData
    /\ iter = 0
    /\ rng = StartRng
    /\ setups = [model |-> 0, data |-> 0]
    /\ fitLog = <<>>
    /\ genLog = <<>>
    /\ randLog = NoRandLog

Next ==
    \/ Invoke
    \/ NextBenchmark
    \/ ReadConfig
    \/ BuildModel
    \/ SetCoefficients
    \/ GenerateData
    \/ Iteration
    \/ Return

Spec == Init /\ [][Next]_vars

-----------------------------------------------------------------------------
(* benchModel as a function of its argument: state.range(0) is cast to     *)
(* RunConfig_t unchecked, so the function accepts any integer, in any build *)

\* line 61 for a call whose argument is any value, registered or not
ReadArg ==
    /\ pc = "config"
    /\ \E arg \in 0..MaxArg : runConfig' = arg
    /\ pc' = "factory"
    /\ UNCHANGED <<hasCuda, ieeeInf, bench, invoked, maxIters, w, data, iter,
                   rng, setups, fitLog, genLog, randLog>>

ArgNext ==
    \/ Invoke
    \/ ReadArg
    \/ BuildModel
    \/ SetCoefficients
    \/ GenerateData
    \/ Iteration
    \/ Return

SpecArg == Init /\ [][ArgNext]_vars

-----------------------------------------------------------------------------
(* randomiseParameters (lines 40-53) *)

\* lines 46-52: the loop over the set, from its i-th element on; the result
\* is the workspace and the generator the loop leaves
RECURSIVE RandomiseLoop(_, _, _, _)
RandomiseLoop(ws, set, r, i) ==
    IF i > Len(set) THEN [ws |-> ws, rng |-> r]
    ELSE LET par == ws[set[i]]
             uni == Uniform(r)
             min == par.min
             max == par.max
             val == NumAdd(min, NumScale(uni, NumSub(max, min)))
         IN RandomiseLoop(SetVal(ws, set[i], val), set, Advance(r, 1), i + 1)

\* randomiseParameters(parameters, seed) on the workspace ws with the global
\* generator in state r
randomiseParameters(ws, r, set, seed) == RandomiseLoop(ws, set, Reseed(r, seed), 1)

\* pdf.getParameters(data): every variable of the model but the observable x
\* (the set the call sketched at lines 93-98 passes)
AllParameters ==
    <<"a", "b", "g", "m0", "m1", "m2", "m3", "ng2", "ng3", "npol", "ns1",
      "ns2", "s1", "s2", "s3">>

\* the parameter sets randomiseParameters is applied to: all parameters,
\* and the parameters of the Gamma component alone
ParamSets == {AllParameters, <<"g", "b", "m0">>, <<"m1", "s1">>}

\* the values a call assigned, in the order of the set
Assigned(ws, set) == [i \in 1..Len(set) |-> ws[set[i]].val]

\* a call of randomiseParameters(set, seed)
Randomise ==
    /\ pc = "params"
    /\ randLog.calls < MaxCalls
    /\ \E set \in ParamSets, seed \in 0..MaxSeed :
          LET out == randomiseParameters(w, rng, set, seed)
          IN /\ w' = out.ws
             /\ rng' = out.rng
             /\ randLog' = [calls |-> randLog.calls + 1,
                            seen |-> randLog.seen \cup
                                     {[set |-> set, seed |-> seed,
                                       before |-> rng,
                                       assigned |-> Assigned(out.ws, set)]}]
    /\ UNCHANGED <<hasCuda, ieeeInf, bench, invoked, pc, maxIters, runConfig,
                   data, iter, setups, fitLog, genLog>>

\* any other user of RooRandom::randomGenerator() takes a draw
OtherDraw ==
    /\ pc = "params"
    /\ randLog.calls < MaxCalls
    /\ rng' = Advance(rng, 1)
    /\ randLog' = [randLog EXCEPT !.calls = @ + 1]
    /\ UNCHANGED <<hasCuda, ieeeInf, bench, invoked, pc, maxIters, runConfig, w,
                   data, iter, setups, fitLog, genLog>>

\* benchModel at lines 92-100, where the sketched call of randomiseParameters
\* stands: the model is set up and the dataset generated
RandInit ==
    /\ hasCuda \in BOOLEAN
    /\ ieeeInf \in BOOLEAN
    /\ bench = 1
    /\ invoked = 1
    /\ pc = "params"
    /\ maxIters = 1
    /\ runConfig = Registered(hasCuda)[1]
    /\ w = WithCoefficients(FactoryWorkspace(ieeeInf))
    /\ data = Generate(StartRng, nEvents)
    /\ iter = 0
    /\ rng = Advance(StartRng, nEvents)
    /\ setups = [model |-> 1, data |-> 1]
    /\ fitLog = <<>>
    /\ genLog = <<[config |-> runConfig, model |-> w, data |-> data]>>
    /\ randLog = NoRandLog

RandNext == Randomise \/ OtherDraw

SpecRand == RandInit /\ [][RandNext]_vars

-----------------------------------------------------------------------------
(* Properties *)

\* the set-up of the call of benchModel in progress
ThisSetup == genLog[Len(genLog)]

\* the five mixture coefficients of a vector of values, summed, in events
CoefSum(vals) ==
    1000 * (vals.ns1.n + vals.ns2.n + vals.ng2.n + vals.ng3.n + vals.npol.n)

\* value within [min, max]
InRange(var) == NumLe(var.min, var.val) /\ NumLe(var.val, var.max)

\* C2: the strategy is chosen once per run: from line 61 on runConfig is
\* the argument of the benchmark being run, and in the timing loop every
\* completed iteration has made exactly one fitTo call, each with the
\* BatchMode runConfig names (fitScalar: none, fitCpu: "cpu", fitCuda: "cuda").
C2_StrategyFixedForRun ==
    /\ pc \in {"factory", "coef", "generate", "loop"}
          => runConfig = Registered(hasCuda)[bench]
    /\ pc = "loop" =>
          /\ Len(fitLog) = iter
          /\ \A i \in DOMAIN fitLog :
                /\ runConfig = fitScalar => fitLog[i].mode = "off"
                /\ runConfig = fitCpu => fitLog[i].mode = "cpu"
                /\ runConfig = fitCuda => fitLog[i].mode = "cuda"

\* C2 witness: a cpu run that has completed two iterations
C2_Witness == pc = "loop" /\ runConfig = fitCpu /\ iter >= 2

\* runConfig names a strategy of RunConfig_t
Recognised(rc) == rc \in {fitScalar, fitCpu, fitCuda}

\* the strategy runConfig names is compiled into this build
Available(rc) == rc = fitCuda => hasCuda

C4_BuiltOnceBeforeLoop ==
    pc = "loop" =>
        /\ setups = [model |-> 1, data |-> 1]
        /\ data = ThisSetup.data
        /\ data.len = 100000
        /\ Shape(w) = Shape(ThisSetup.model)

\* C4 witness: two iterations done, and the fits did change parameter values
C4_Witness ==
    pc = "loop" /\ iter >= 2 /\ Vals(w) # Vals(ThisSetup.model)

\* C5: every run fits the same observation values: all datasets generated
\* in the process are the same sample.
C5_SameDataForEveryRun ==
    \A i, j \in DOMAIN genLog : genLog[i].data = genLog[j].data

\* C6: the model as set up (components, ranges, initial values, coefficient
\* values) is the same for every runConfig.
C6_ModelIndependentOfConfig ==
    \A i, j \in DOMAIN genLog : genLog[i].model = genLog[j].model

\* C6 witness: all three strategies have been set up
C6_Witness ==
    {genLog[i].config : i \in DOMAIN genLog} = {fitScalar, fitCpu, fitCuda}

\* C7: every parameter's value lies within [min, max], after the coefficient
\* initialisation and after any call of randomiseParameters.
C7_ValuesWithinBounds ==
    \A p \in DOMAIN w : InRange(w[p])

\* C8: when the dataset is generated and when the first fit starts, the five
\* coefficients sum to nEvents = 100000, the number of events generated.
C8_CoefficientsSumToEvents ==
    /\ pc = "generate" => CoefSum(Vals(w)) = 100000
    /\ (pc = "loop" /\ iter = 0) =>
          /\ CoefSum(Vals(w)) = 100000
          /\ CoefSum(Vals(ThisSetup.model)) = data.len

\* C8 witness: the dataset is generated and the first fit is about to start
C8_Witness == pc = "loop" /\ iter = 0 /\ data.len = nEvents

\* C9 (as claimed): two calls with the same parameter set and the same seed
\* assign identical values, for every seed, 0 included.
C9_SameSeedSameValues ==
    \A c, d \in randLog.seen :
        (c.set = d.set /\ c.seed = d.seed) => c.assigned = d.assigned

\* C9 (amended): two calls with the same parameter set and the same seed
\* other than 0 assign identical values, whatever the generator's state was.
C9_NonZeroSeedSameValues ==
    \A c, d \in randLog.seen :
        (c.set = d.set /\ c.seed = d.seed /\ c.seed # 0)
            => c.assigned = d.assigned

\* C9 witness: the same set was randomised twice with the same non-zero seed,
\* from different states of the global generator
C9_Witness ==
    \E c, d \in randLog.seen :
        c.set = d.set /\ c.seed = d.seed /\ c.seed # 0 /\ c.before # d.before

\* C10: the first fit of a call starts from the values of the set-up (the
\* coefficients at 0.2/0.3/0.1/0.1/0.3 of nEvents), and every later fit
\* starts from exactly the values the fit before it left.
C10_NoResetBetweenFits ==
    \A i \in DOMAIN fitLog :
        /\ i = 1 =>
              /\ fitLog[i].start = Vals(ThisSetup.model)
              /\ fitLog[i].start.ns1 = Fin(20)
              /\ fitLog[i].start.ns2 = Fin(30)
              /\ fitLog[i].start.ng2 = Fin(10)
              /\ fitLog[i].start.ng3 = Fin(10)
              /\ fitLog[i].start.npol = Fin(30)
        /\ i > 1 => fitLog[i].start = fitLog[i - 1].end

\* C10 witness: three fits made, each of which moved the parameters
C10_Witness ==
    /\ Len(fitLog) >= 3
    /\ \A i \in DOMAIN fitLog : fitLog[i].end # fitLog[i].start

====
